---- MODULE Spec2Model ----
(***************************************************************************)
(* The message feed of src/components/realtime-chat.tsx (RealtimeChat):    *)
(* one conversation view that merges the history fetch, the live INSERT    *)
(* feed of the room and the locally sent messages into realtimeMessages,   *)
(* from which the displayed list allMessages is derived.                   *)
(*                                                                         *)
(* A message is a record [id, created_at].  An id is [opt, n]: opt is TRUE *)
(* for an id that starts with 'optimistic-' (n is then the Date.now()      *)
(* reading it was built from) and FALSE for an id assigned by the messages *)
(* table (n is then the row's key).  created_at is the instant the         *)
(* timestamp string denotes.                                               *)
(*                                                                         *)
(* The view is rendered by the Chat page, which names the room after the   *)
(* two participants.  An identifier is a sequence of characters.           *)
(***************************************************************************)
EXTENDS Integers, Sequences, FiniteSets

\* Bounds of the model.
MaxRows == 3        \* rows the messages table ever holds for the room
MaxTime == 3        \* clock readings and row timestamps range over 1..MaxTime

MaxIdLen == 2       \* characters of a participant identifier
MaxGapRows == 2     \* rows of the table in the runs with a dropping channel
MaxGapTime == 2     \* clock readings and timestamps in those runs
MaxFeedLen == 3     \* entries of a feed the handlers are applied to directly
MaxDraftLen == 2    \* characters of a draft of the chat form
MaxCalls == 2       \* send calls counted in the runs on the draft
MaxCodeLen == 2     \* characters of an access code entered in the join dialog

Times == 1 .. MaxTime

\* The characters identifiers are written with, and their UTF-16 code units.
Chars == {"_", "a", "b"}
CharCode == [c \in Chars |-> IF c = "_" THEN 95 ELSE IF c = "a" THEN 97 ELSE 98]

Idents == UNION {[1 .. n -> Chars] : n \in 1 .. MaxIdLen}

\* The statuses a channel reports to the subscribe callback.
OtherStatuses == {"CHANNEL_ERROR", "TIMED_OUT", "CLOSED"}

VARIABLES
    realtimeMessages,   \* useState<ChatMessage[]>: the feed
    isLoading,          \* useState(true)
    isConnected,        \* useState(false)
    isSending,          \* useState(false)
    fetchPc,            \* the history request: "pending", "answered", "done"
    fetchData,          \* rows the history query selected (while "answered")
    sendPc,             \* the insert request: "idle", "requested", "committed"
    tempId,             \* tempId of the send in flight (NoId when idle)
    sentRow,            \* data[0] of the send in flight (NoRow until committed)
    serverRows,         \* rows of the messages table for the room
    pushQueue,          \* INSERT payloads on their way to the channel handler, oldest first
    currentUserId,      \* prop: user.id of the Chat page
    receiverId,         \* prop: the receiverId of the Chat page
    mounted,            \* the view is rendered (its effects are set up)
    channels,           \* room names the client holds a subscribed channel for
    lastStatus,         \* the status the subscribe callback ran with last ("none" before)
    lastTempId,         \* the tempId of the latest send call on record (NoId if none)
    gapRows,            \* rows stored while the last status was not SUBSCRIBED
    newMessage,         \* useState(''): the draft of the form
    sendCalls,          \* the calls of sendMessage counted so far
    teamMembers,        \* projects.team_members of the project (null read as [])
    joinPc,             \* per user, the join request: "idle", "finding", "updating"
    joinCode,           \* per user, codeToFind of the join in flight (else empty)
    joinSeen,           \* per user, project.team_members read by the join in flight
    joinError,          \* per user, useState(''): error of the join dialog
    joinSuccess         \* per user, whether the dialog shows its success text

vars == <<realtimeMessages, isLoading, isConnected, isSending, fetchPc, fetchData,
          sendPc, tempId, sentRow, serverRows, pushQueue, currentUserId, receiverId,
          mounted, channels, lastStatus, lastTempId, gapRows, newMessage, sendCalls,
          teamMembers, joinPc, joinCode, joinSeen, joinError, joinSuccess>>

\* The props and the set-up of the view.
lifecycle == <<currentUserId, receiverId, mounted, channels>>

\* The draft of the chat form and the count of its send calls.
composer == <<newMessage, sendCalls>>

\* The project joined by access code and the join dialog of every user.
dialog == <<teamMembers, joinPc, joinCode, joinSeen, joinError, joinSuccess>>

NoId == [opt |-> FALSE, n |-> 0]
NoRow == [id |-> NoId, created_at |-> 0]

\* newMsg.id.startsWith('optimistic-')
IsOptimistic(id) == id.opt

\* `optimistic-${Date.now()}`
OptimisticId(now) == [opt |-> TRUE, n |-> now]

\* new Date(m.created_at).getTime()
getTime(m) == m.created_at

Range(s) == {s[i] : i \in 1 .. Len(s)}

\* The default comparison of Array.prototype.sort on two strings: s sorts
\* before t when it is smaller in code unit order.
RECURSIVE Before(_, _)
Before(s, t) ==
    IF t = <<>> THEN FALSE
    ELSE IF s = <<>> THEN TRUE
    ELSE IF CharCode[Head(s)] # CharCode[Head(t)]
         THEN CharCode[Head(s)] < CharCode[Head(t)]
    ELSE Before(Tail(s), Tail(t))

\* [id1, id2].sort()
sort(arr) == IF Before(arr[2], arr[1]) THEN <<arr[2], arr[1]>> ELSE arr

\* arr.join(sep) of a two-element array
join(arr, sep) == arr[1] \o sep \o arr[2]

\* The room name built without sorting the two identifiers.
generateRoomName_Unsorted(id1, id2) == join(<<id1, id2>>, <<"_">>)

\* generateRoomName of the Chat page
generateRoomName(id1, id2) == join(sort(<<id1, id2>>), <<"_">>)

\* `chat_${generateRoomName(user.id, receiverId)}`
RoomNameOf(userId, otherId) ==
    <<"c", "h", "a", "t", "_">> \o generateRoomName(userId, otherId)

\* The roomName prop of the view.
roomName == RoomNameOf(currentUserId, receiverId)

\* supabase.removeChannel(channel) on the channel of a room
removeChannel_Kept(chs, room) == chs

removeChannel(chs, room) == chs \ {room}

\* supabase.channel(roomName) ... .subscribe(...)
subscribe(chs, room) == chs \cup {room}

\* The value the subscribe callback gives setIsConnected, for any status but
\* CLOSED.
subscribeCallback_NotClosed(status) == status # "CLOSED"

\* The value the subscribe callback gives setIsConnected.
subscribeCallback(status) == status = "SUBSCRIBED"

\* The input of the form is enabled while a send is in flight.
InputEnabled_WhileSending == isConnected /\ currentUserId # <<>>

\* The input of the form is enabled whatever the connection.
InputEnabled_Unconnected == ~isSending /\ currentUserId # <<>>

\* disabled={!isConnected || isSending || !currentUserId}
InputEnabled == isConnected /\ ~isSending /\ currentUserId # <<>>

\* self.findIndex((m) => m.id === id), scanning from index i: the first index
\* holding the id (0 if none)
RECURSIVE findIndexFrom(_, _, _)
findIndexFrom(self, id, i) ==
    IF i > Len(self) THEN 0
    ELSE IF self[i].id = id THEN i
    ELSE findIndexFrom(self, id, i + 1)

findIndex(self, id) == findIndexFrom(self, id, 1)

\* realtimeMessages.filter((message, index, self) => index === self.findIndex(...))
RECURSIVE FilterFirst(_, _)
FilterFirst(self, k) ==
    IF k > Len(self) THEN <<>>
    ELSE IF findIndex(self, self[k].id) = k
         THEN <<self[k]>> \o FilterFirst(self, k + 1)
         ELSE FilterFirst(self, k + 1)

\* The filter written with the last index of each id instead of the first.
RECURSIVE FilterLast(_, _)
FilterLast(self, k) ==
    IF k > Len(self) THEN <<>>
    ELSE IF \A j \in (k + 1) .. Len(self) : self[j].id # self[k].id
         THEN <<self[k]>> \o FilterLast(self, k + 1)
         ELSE FilterLast(self, k + 1)

uniqueMessages_LastSeen(msgs) == FilterLast(msgs, 1)

\* The filter left out: every entry of the feed is displayed.
uniqueMessages_Unfiltered(msgs) == msgs

uniqueMessages(msgs) == FilterFirst(msgs, 1)

\* Array.prototype.sort with the comparator getTime(a) - getTime(b): a stable
\* sort, so entries of equal time keep their order.  Insert places m after
\* every entry whose time is not later than m's.
\* The comparator ignored: the entry goes to the end.
Insert_AtEnd(sorted, m) == Append(sorted, m)

RECURSIVE Insert(_, _)
Insert(sorted, m) ==
    IF sorted = <<>> THEN <<m>>
    ELSE IF getTime(Head(sorted)) - getTime(m) > 0
         THEN <<m>> \o sorted
         ELSE <<Head(sorted)>> \o Insert(Tail(sorted), m)

RECURSIVE SortFrom(_, _, _)
SortFrom(msgs, k, acc) ==
    IF k > Len(msgs) THEN acc ELSE SortFrom(msgs, k + 1, Insert(acc, msgs[k]))

\* The sort left out: the entries stay in feed order.
sortByTime_FeedOrder(msgs) == msgs

sortByTime(msgs) == SortFrom(msgs, 1, <<>>)

\* The displayed list (useMemo over realtimeMessages).
allMessagesOf(msgs) == sortByTime(uniqueMessages(msgs))

allMessages == allMessagesOf(realtimeMessages)

\* The characters of a draft and the drafts the form can hold.
DraftChars == {" ", "x"}
Drafts == UNION {[1 .. n -> DraftChars] : n \in 0 .. MaxDraftLen}

\* String.prototype.trim left out.
trim_Identity(text) == text

\* String.prototype.trim: the text without its leading and trailing blanks.
RECURSIVE trim(_)
trim(text) ==
    IF text = <<>> THEN <<>>
    ELSE IF Head(text) = " " THEN trim(Tail(text))
    ELSE IF text[Len(text)] = " " THEN trim(SubSeq(text, 1, Len(text) - 1))
    ELSE text

\* The guard of sendMessage: !newMessage.trim() || !currentUserId
SendReturnsEarly(text, userId) == trim(text) = <<>> \/ userId = <<>>

\* The users of the join dialog, the owner of the project first.
JoinUsers == {"o", "u1", "u2"}
OwnerId == "o"
EmailOf(userId) ==
    CASE userId = "o" -> "o@x"
      [] userId = "u1" -> "u1@x"
      [] userId = "u2" -> "u2@x"

\* The access code of the project (upper-case letters and digits).
ProjectCode == <<"A">>

\* The characters of a text typed in the code field and the texts typed.
CodeChars == {" ", "a"}
Codes == UNION {[1 .. n -> CodeChars] : n \in 0 .. MaxCodeLen}

\* String.prototype.toUpperCase
toUpperCase(text) == [i \in 1 .. Len(text) |-> IF text[i] = "a" THEN "A" ELSE text[i]]

\* The membership test by email only.
AlreadyMember_ByEmailOnly(members, userEmail, userId) ==
    userEmail \in Range(members)

\* team_members.includes(userEmail) || team_members.includes(userId)
AlreadyMember(members, userEmail, userId) ==
    userEmail \in Range(members) \/ userId \in Range(members)

\* team_members of the project before any join of these runs: none, a member
\* recorded by email, a member recorded by id.
InitMembers == {<<>>, <<"m@x">>, <<"u1">>}

InitComposer ==
    /\ newMessage = <<>>
    /\ sendCalls = 0

\* No join in flight, for a project with the given team_members.
InitDialog(members) ==
    /\ teamMembers = members
    /\ joinPc = [u \in JoinUsers |-> "idle"]
    /\ joinCode = [u \in JoinUsers |-> <<>>]
    /\ joinSeen = [u \in JoinUsers |-> <<>>]
    /\ joinError = [u \in JoinUsers |-> ""]
    /\ joinSuccess = [u \in JoinUsers |-> FALSE]

InitChat(userId, otherId) ==
    /\ currentUserId = userId
    /\ receiverId = otherId
    /\ mounted = TRUE
    /\ channels = subscribe({}, RoomNameOf(userId, otherId))
    /\ lastStatus = "none"
    /\ lastTempId = NoId
    /\ gapRows = {}
    /\ realtimeMessages = <<>>
    /\ isLoading = TRUE
    /\ isConnected = FALSE
    /\ isSending = FALSE
    /\ fetchPc = "pending"
    /\ fetchData = <<>>
    /\ sendPc = "idle"
    /\ tempId = NoId
    /\ sentRow = NoRow
    /\ serverRows = {}
    /\ pushQueue = <<>>
    /\ InitComposer

InitView(userId, otherId) == InitChat(userId, otherId) /\ InitDialog(<<>>)

\* The view of one user on the conversation with another.
Init == InitView(<<"a">>, <<"b">>)

\* The view of any user on the conversation with any other.
InitRooms == \E userId \in Idents, otherId \in Idents : InitView(userId, otherId)

\* The handler without its "already exists" test.
PushHandler_NoExistsTest(prev, newMsg) ==
    IF IsOptimistic(newMsg.id) THEN prev ELSE Append(prev, newMsg)

\* The handler without its marker test.
PushHandler_NoMarkerTest(prev, newMsg) ==
    IF \E i \in 1 .. Len(prev) : prev[i].id = newMsg.id THEN prev
    ELSE Append(prev, newMsg)

\* The payload handler of the channel (the updater passed to setRealtimeMessages).
PushHandler(prev, newMsg) ==
    IF \E i \in 1 .. Len(prev) : prev[i].id = newMsg.id THEN prev
    ELSE IF IsOptimistic(newMsg.id) THEN prev
    ELSE Append(prev, newMsg)

\* The optimistic update left out: nothing is shown until the insert returns.
AppendOptimistic_Skipped(prev, optimisticMessage) == prev

\* setRealtimeMessages(prev => [...prev, optimisticMessage])
AppendOptimistic(prev, optimisticMessage) == Append(prev, optimisticMessage)

\* The replace written as a removal followed by an append of the row.
ReplaceOptimistic_MovedToEnd(prev, tid, row) ==
    Append(SelectSeq(prev, LAMBDA msg : msg.id # tid), row)

\* prev.map(msg => msg.id === tempId ? data[0] : msg)
ReplaceOptimistic(prev, tid, row) ==
    [i \in 1 .. Len(prev) |-> IF prev[i].id = tid THEN row ELSE prev[i]]

\* The error path without the filter: the placeholder stays.
RemoveOptimistic_Kept(prev, tid) == prev

\* The removal written as a reset of the feed.
RemoveOptimistic_Cleared(prev, tid) == <<>>

\* prev.filter(msg => msg.id !== tempId)
RECURSIVE RemoveOptimistic(_, _)
RemoveOptimistic(prev, tid) ==
    IF prev = <<>> THEN <<>>
    ELSE IF Head(prev).id # tid
         THEN <<Head(prev)>> \o RemoveOptimistic(Tail(prev), tid)
         ELSE RemoveOptimistic(Tail(prev), tid)

\* The history rows added to the feed instead of taking its place.
LoadHistory_Appended(prev, data) == prev \o data

\* setRealtimeMessages(data) of fetchMessages
LoadHistory(prev, data) == data

\* .eq('room', roomName).order('created_at', { ascending: true }): the rows of
\* the room in ascending time; the order of rows of equal time is the store's.
OrderedSelections(rows) ==
    {s \in [1 .. Cardinality(rows) -> rows] :
        /\ \A i, j \in 1 .. Cardinality(rows) : i # j => s[i] # s[j]
        /\ \A i, j \in 1 .. Cardinality(rows) : i < j => getTime(s[i]) <= getTime(s[j])}

\* The row the messages table stores for an insert: a fresh key and the
\* store's own timestamp.
NewRow(rows, t) ==
    [id |-> [opt |-> FALSE, n |-> Cardinality(rows) + 1], created_at |-> t]

\* The room of the rows the messages table holds: the room of the first view.
StoreRoom == RoomNameOf(<<"a">>, <<"b">>)

\* .eq('room', roomName): the rows of the table for a room
RowsOf(room) == IF room = StoreRoom THEN serverRows ELSE {}

\* A committed row reaches the subscribers of the channel of its room
\* (filter room=eq.roomName).
Broadcast(queue, row) ==
    IF isConnected /\ StoreRoom \in channels THEN Append(queue, row) ELSE queue

\* The rows stored while the channel was not up, one more if it is not now.
StoredInGap(rows, row) ==
    IF lastStatus \in OtherStatuses THEN rows \cup {row} ELSE rows

\* Another participant of the room inserts a message.
PeerInsert ==
    /\ Cardinality(serverRows) < MaxRows
    /\ \E t \in Times :
        LET row == NewRow(serverRows, t) IN
        /\ serverRows' = serverRows \cup {row}
        /\ pushQueue' = Broadcast(pushQueue, row)
        /\ gapRows' = StoredInGap(gapRows, row)
    /\ UNCHANGED <<realtimeMessages, isLoading, isConnected, isSending, fetchPc,
                   fetchData, sendPc, tempId, sentRow>>
    /\ UNCHANGED <<lifecycle, lastStatus, lastTempId>>
    /\ UNCHANGED <<composer, dialog>>

\* The store evaluates the history query of fetchMessages.
HistoryQuery ==
    /\ fetchPc = "pending"
    /\ \E data \in OrderedSelections(RowsOf(roomName)) : fetchData' = data
    /\ fetchPc' = "answered"
    /\ UNCHANGED <<realtimeMessages, isLoading, isConnected, isSending, sendPc,
                   tempId, sentRow, serverRows, pushQueue>>
    /\ UNCHANGED <<lifecycle, lastStatus, lastTempId, gapRows>>
    /\ UNCHANGED <<composer, dialog>>

\* fetchMessages resumes with the rows: setRealtimeMessages(data), then finally.
FetchComplete ==
    /\ mounted
    /\ fetchPc = "answered"
    /\ realtimeMessages' = LoadHistory(realtimeMessages, fetchData)
    /\ isLoading' = FALSE
    /\ fetchPc' = "done"
    /\ fetchData' = <<>>
    /\ UNCHANGED <<isConnected, isSending, sendPc, tempId, sentRow, serverRows,
                   pushQueue>>
    /\ UNCHANGED <<lifecycle, lastStatus, lastTempId, gapRows>>
    /\ UNCHANGED <<composer, dialog>>

\* The catch written with a second request for the history.
FetchError_Retried ==
    /\ mounted
    /\ fetchPc \in {"pending", "answered"}
    /\ isLoading' = FALSE
    /\ fetchPc' = "pending"
    /\ fetchData' = <<>>
    /\ UNCHANGED <<realtimeMessages, isConnected, isSending, sendPc, tempId, sentRow,
                   serverRows, pushQueue>>
    /\ UNCHANGED <<lifecycle, lastStatus, lastTempId, gapRows>>
    /\ UNCHANGED <<composer, dialog>>

\* fetchMessages resumes with an error: catch, then finally.
FetchError ==
    /\ mounted
    /\ fetchPc \in {"pending", "answered"}
    /\ isLoading' = FALSE
    /\ fetchPc' = "done"
    /\ fetchData' = <<>>
    /\ UNCHANGED <<realtimeMessages, isConnected, isSending, sendPc, tempId, sentRow,
                   serverRows, pushQueue>>
    /\ UNCHANGED <<lifecycle, lastStatus, lastTempId, gapRows>>
    /\ UNCHANGED <<composer, dialog>>

\* A reconnection that requests the history again.
StatusSubscribed_Backfilled ==
    /\ mounted /\ roomName \in channels
    /\ ~isConnected
    /\ isConnected' = subscribeCallback("SUBSCRIBED")
    /\ lastStatus' = "SUBSCRIBED"
    /\ fetchPc' = "pending"
    /\ UNCHANGED <<realtimeMessages, isLoading, isSending, fetchData, sendPc,
                   tempId, sentRow, serverRows, pushQueue>>
    /\ UNCHANGED <<lifecycle, lastTempId, gapRows>>
    /\ UNCHANGED <<composer, dialog>>

\* The subscribe callback runs with SUBSCRIBED:
\* setIsConnected(status === 'SUBSCRIBED').
StatusSubscribed ==
    /\ mounted /\ roomName \in channels
    /\ ~isConnected
    /\ isConnected' = subscribeCallback("SUBSCRIBED")
    /\ lastStatus' = "SUBSCRIBED"
    /\ UNCHANGED <<realtimeMessages, isLoading, isSending, fetchPc, fetchData, sendPc,
                   tempId, sentRow, serverRows, pushQueue>>
    /\ UNCHANGED <<lifecycle, lastTempId, gapRows>>
    /\ UNCHANGED <<composer, dialog>>

\* The subscribe callback runs with any other status (CHANNEL_ERROR, TIMED_OUT,
\* CLOSED): the payloads still on their way are lost with the connection.
StatusOther ==
    /\ mounted
    /\ \E status \in OtherStatuses :
        /\ isConnected' = subscribeCallback(status)
        /\ lastStatus' = status
    /\ pushQueue' = <<>>
    /\ UNCHANGED <<realtimeMessages, isLoading, isSending, fetchPc, fetchData, sendPc,
                   tempId, sentRow, serverRows>>
    /\ UNCHANGED <<lifecycle, lastTempId, gapRows>>
    /\ UNCHANGED <<composer, dialog>>

\* The channel handler runs for a payload whose id still carries the marker
\* (the table assigns its own keys, so no stored row carries it).
MarkedDelivery ==
    /\ mounted /\ roomName \in channels
    /\ isConnected
    /\ \E now \in Times :
        realtimeMessages' =
            PushHandler(realtimeMessages,
                        [id |-> OptimisticId(now), created_at |-> now])
    /\ UNCHANGED <<isLoading, isConnected, isSending, fetchPc, fetchData, sendPc,
                   tempId, sentRow, serverRows, pushQueue>>
    /\ UNCHANGED <<lifecycle, lastStatus, lastTempId, gapRows>>
    /\ UNCHANGED <<composer, dialog>>

\* The channel handler runs for the oldest payload on its way.
PushDeliver ==
    /\ mounted /\ roomName \in channels
    /\ pushQueue # <<>>
    /\ realtimeMessages' = PushHandler(realtimeMessages, Head(pushQueue))
    /\ pushQueue' = Tail(pushQueue)
    /\ UNCHANGED <<isLoading, isConnected, isSending, fetchPc, fetchData, sendPc,
                   tempId, sentRow, serverRows>>
    /\ UNCHANGED <<lifecycle, lastStatus, lastTempId, gapRows>>
    /\ UNCHANGED <<composer, dialog>>

\* sendMessage up to its await, with the clock reading it observes, called
\* from the form (rendered once loading has ended, its input enabled while
\* connected and not sending) with the draft it observes: past its guard the
\* placeholder is appended and the draft cleared before the insert request is
\* answered.
sendMessage(text, now) ==
    /\ mounted
    /\ ~isLoading /\ InputEnabled
    /\ ~SendReturnsEarly(text, currentUserId)
    /\ Cardinality(serverRows) < MaxRows
    /\ tempId' = OptimisticId(now)
    /\ realtimeMessages' =
           AppendOptimistic(realtimeMessages,
                            [id |-> OptimisticId(now), created_at |-> now])
    /\ isSending' = TRUE
    /\ newMessage' = <<>>
    /\ sendPc' = "requested"
    /\ UNCHANGED <<isLoading, isConnected, fetchPc, fetchData, sentRow, serverRows,
                   pushQueue>>
    /\ UNCHANGED <<lifecycle, lastStatus, gapRows>>
    /\ UNCHANGED dialog

\* The user enters a text in the form and submits it: a send call.
Send ==
    /\ \E now \in Times, text \in Drafts : sendMessage(text, now)
    /\ UNCHANGED <<lastTempId, sendCalls>>

\* A send call, its tempId kept on record for the call after it.
SendRecorded ==
    \E now \in Times :
        /\ \E text \in Drafts : sendMessage(text, now)
        /\ lastTempId' = OptimisticId(now)
        /\ UNCHANGED sendCalls

\* The store commits the insert of the send in flight and selects the row.
InsertCommit ==
    /\ sendPc = "requested"
    /\ Cardinality(serverRows) < MaxRows
    /\ \E t \in Times :
        LET row == NewRow(serverRows, t) IN
        /\ serverRows' = serverRows \cup {row}
        /\ pushQueue' = Broadcast(pushQueue, row)
        /\ sentRow' = row
        /\ gapRows' = StoredInGap(gapRows, row)
    /\ sendPc' = "committed"
    /\ UNCHANGED <<realtimeMessages, isLoading, isConnected, isSending, fetchPc,
                   fetchData, tempId>>
    /\ UNCHANGED <<lifecycle, lastStatus, lastTempId>>
    /\ UNCHANGED <<composer, dialog>>

\* sendMessage resumes with data[0]: the replace, then finally.
SendSuccess ==
    /\ mounted
    /\ sendPc = "committed"
    /\ realtimeMessages' = ReplaceOptimistic(realtimeMessages, tempId, sentRow)
    /\ isSending' = FALSE
    /\ sendPc' = "idle"
    /\ tempId' = NoId
    /\ sentRow' = NoRow
    /\ UNCHANGED <<isLoading, isConnected, fetchPc, fetchData, serverRows, pushQueue>>
    /\ UNCHANGED <<lifecycle, lastStatus, lastTempId, gapRows>>
    /\ UNCHANGED <<composer, dialog>>

\* sendMessage resumes with an error and no row was stored: catch, then finally.
SendFailure ==
    /\ mounted
    /\ sendPc = "requested"
    /\ realtimeMessages' = RemoveOptimistic(realtimeMessages, tempId)
    /\ isSending' = FALSE
    /\ sendPc' = "idle"
    /\ tempId' = NoId
    /\ UNCHANGED <<isLoading, isConnected, fetchPc, fetchData, sentRow, serverRows,
                   pushQueue>>
    /\ UNCHANGED <<lifecycle, lastStatus, lastTempId, gapRows>>
    /\ UNCHANGED <<composer, dialog>>

\* The catch written with a second insert request for the same message.
SendAnswerLost_Resubmitted ==
    /\ mounted
    /\ sendPc = "committed"
    /\ sendPc' = "requested"
    /\ sentRow' = NoRow
    /\ UNCHANGED <<realtimeMessages, isLoading, isConnected, isSending, fetchPc,
                   fetchData, tempId, serverRows, pushQueue>>
    /\ UNCHANGED <<lifecycle, lastStatus, lastTempId, gapRows>>
    /\ UNCHANGED <<composer, dialog>>

\* The row was stored but the answer never reached sendMessage, which resumes
\* with an error: catch, then finally.
SendAnswerLost ==
    /\ mounted
    /\ sendPc = "committed"
    /\ realtimeMessages' = RemoveOptimistic(realtimeMessages, tempId)
    /\ isSending' = FALSE
    /\ sendPc' = "idle"
    /\ tempId' = NoId
    /\ sentRow' = NoRow
    /\ UNCHANGED <<isLoading, isConnected, fetchPc, fetchData, serverRows, pushQueue>>
    /\ UNCHANGED <<lifecycle, lastStatus, lastTempId, gapRows>>
    /\ UNCHANGED <<composer, dialog>>

\* sendMessage resumes with no error and no row although the row was stored
\* (data && data[0] is false): nothing but the finally runs.
SendNoRow ==
    /\ mounted
    /\ sendPc = "committed"
    /\ isSending' = FALSE
    /\ sendPc' = "idle"
    /\ tempId' = NoId
    /\ sentRow' = NoRow
    /\ UNCHANGED <<realtimeMessages, isLoading, isConnected, fetchPc, fetchData,
                   serverRows, pushQueue>>
    /\ UNCHANGED <<lifecycle, lastStatus, lastTempId, gapRows>>
    /\ UNCHANGED <<composer, dialog>>

\* The Chat page renders the view for another receiver once the history
\* fetch of the view has ended: when the room name changes, the cleanup of
\* the subscription effect runs, the effect subscribes to the new room and
\* the fetch effect requests its history.  A send in flight goes on.
RoomChange ==
    /\ mounted
    /\ fetchPc = "done"
    /\ \E otherId \in Idents :
        /\ receiverId' = otherId
        /\ IF RoomNameOf(currentUserId, otherId) # roomName
           THEN /\ channels' = subscribe(removeChannel(channels, roomName),
                                         RoomNameOf(currentUserId, otherId))
                /\ fetchPc' = "pending"
                /\ pushQueue' = <<>>
           ELSE UNCHANGED <<channels, fetchPc, pushQueue>>
    /\ UNCHANGED <<realtimeMessages, isLoading, isConnected, isSending, fetchData,
                   sendPc, tempId, sentRow, serverRows>>
    /\ UNCHANGED <<currentUserId, mounted, lastStatus, lastTempId, gapRows>>
    /\ UNCHANGED <<composer, dialog>>

\* The view is torn down: the cleanup of the subscription effect runs.
Unmount ==
    /\ mounted
    /\ mounted' = FALSE
    /\ channels' = removeChannel(channels, roomName)
    /\ pushQueue' = <<>>
    /\ UNCHANGED <<realtimeMessages, isLoading, isConnected, isSending, fetchPc,
                   fetchData, sendPc, tempId, sentRow, serverRows>>
    /\ UNCHANGED <<currentUserId, receiverId, lastStatus, lastTempId, gapRows>>
    /\ UNCHANGED <<composer, dialog>>

\* After a tear-down the Chat page renders a new view, for any user and any
\* receiver: its state is the initial one.
Remount ==
    /\ ~mounted
    /\ \E userId \in Idents, otherId \in Idents :
        /\ currentUserId' = userId
        /\ receiverId' = otherId
        /\ channels' = subscribe(channels, RoomNameOf(userId, otherId))
    /\ mounted' = TRUE
    /\ realtimeMessages' = <<>>
    /\ isLoading' = TRUE
    /\ isConnected' = FALSE
    /\ isSending' = FALSE
    /\ fetchPc' = "pending"
    /\ fetchData' = <<>>
    /\ sendPc' = "idle"
    /\ tempId' = NoId
    /\ sentRow' = NoRow
    /\ lastStatus' = "none"
    /\ newMessage' = <<>>
    /\ UNCHANGED <<serverRows, pushQueue, lastTempId, gapRows>>
    /\ UNCHANGED <<sendCalls, dialog>>

\* The view while its channel stays up once subscribed.
Next ==
    \/ PeerInsert
    \/ HistoryQuery
    \/ FetchComplete
    \/ FetchError
    \/ StatusSubscribed
    \/ MarkedDelivery
    \/ PushDeliver
    \/ Send
    \/ InsertCommit
    \/ SendSuccess
    \/ SendFailure
    \/ SendAnswerLost

Spec == Init /\ [][Next]_vars

\* The runs with a dropping channel are kept within their own bounds.
InGap ==
    /\ Cardinality(serverRows') <= MaxGapRows
    /\ \A r \in serverRows' : r.created_at <= MaxGapTime
    /\ tempId'.n <= MaxGapTime

GapPeerInsert == PeerInsert /\ InGap

GapSend == Send /\ Cardinality(serverRows) < MaxGapRows /\ InGap

GapInsertCommit == InsertCommit /\ InGap

\* The subscribed channel drops: the callback runs with another status.
ChannelDrop == StatusOther /\ isConnected

\* The same view with a channel that may drop and be subscribed again.
NextDrops ==
    \/ GapPeerInsert
    \/ HistoryQuery
    \/ FetchComplete
    \/ FetchError
    \/ StatusSubscribed
    \/ ChannelDrop
    \/ PushDeliver
    \/ GapSend
    \/ GapInsertCommit
    \/ SendSuccess
    \/ SendFailure
    \/ SendAnswerLost

SpecDrops == Init /\ [][NextDrops]_vars

\* The same view, the tempId of each send call kept on record.
NextIds ==
    \/ PeerInsert
    \/ HistoryQuery
    \/ FetchComplete
    \/ FetchError
    \/ StatusSubscribed
    \/ PushDeliver
    \/ SendRecorded
    \/ InsertCommit
    \/ SendSuccess
    \/ SendFailure
    \/ SendAnswerLost

SpecIds == Init /\ [][NextIds]_vars

\* A send call from the view of the room whose rows the table holds.
SwitchSend == GapSend /\ roomName = StoreRoom

\* The view with a dropping channel, rendered for one receiver after the
\* other.
NextSwitch ==
    \/ GapPeerInsert
    \/ HistoryQuery
    \/ FetchComplete
    \/ FetchError
    \/ StatusSubscribed
    \/ ChannelDrop
    \/ PushDeliver
    \/ SwitchSend
    \/ GapInsertCommit
    \/ SendSuccess
    \/ SendFailure
    \/ SendAnswerLost
    \/ RoomChange

SpecSwitch == Init /\ [][NextSwitch]_vars

\* The messages and the feeds the three updaters of the feed are applied to
\* directly: two rows and one placeholder, each with any timestamp.
FeedMsgs ==
    {[id |-> i, created_at |-> t] :
        i \in {[opt |-> FALSE, n |-> 1], [opt |-> FALSE, n |-> 2], OptimisticId(1)},
        t \in 1 .. MaxGapTime}

Feeds == UNION {[1 .. n -> FeedMsgs] : n \in 0 .. MaxFeedLen}

nonFeed == <<isLoading, isConnected, isSending, fetchPc, fetchData, sendPc, tempId,
             sentRow, serverRows, pushQueue, currentUserId, receiverId, mounted,
             channels, lastStatus, lastTempId, gapRows, composer, dialog>>

InitFeeds ==
    /\ realtimeMessages \in Feeds
    /\ isLoading = FALSE
    /\ isConnected = TRUE
    /\ isSending = FALSE
    /\ fetchPc = "done"
    /\ fetchData = <<>>
    /\ sendPc = "idle"
    /\ tempId = NoId
    /\ sentRow = NoRow
    /\ serverRows = {}
    /\ pushQueue = <<>>
    /\ currentUserId = <<"a">>
    /\ receiverId = <<"b">>
    /\ mounted = TRUE
    /\ channels = subscribe({}, StoreRoom)
    /\ lastStatus = "SUBSCRIBED"
    /\ lastTempId = NoId
    /\ gapRows = {}
    /\ InitComposer
    /\ InitDialog(<<>>)

\* The channel handler runs for any payload.
HandlerRun ==
    /\ Len(realtimeMessages) < MaxFeedLen
    /\ \E newMsg \in FeedMsgs : realtimeMessages' = PushHandler(realtimeMessages, newMsg)
    /\ UNCHANGED nonFeed

\* The optimistic update of a send call runs for any placeholder.
AppendRun ==
    /\ Len(realtimeMessages) < MaxFeedLen
    /\ \E optimisticMessage \in {m \in FeedMsgs : IsOptimistic(m.id)} :
        realtimeMessages' = AppendOptimistic(realtimeMessages, optimisticMessage)
    /\ UNCHANGED nonFeed

\* The replace of a send call runs for any row.
ReplaceRun ==
    /\ \E row \in {m \in FeedMsgs : ~IsOptimistic(m.id)} :
        realtimeMessages' = ReplaceOptimistic(realtimeMessages, OptimisticId(1), row)
    /\ UNCHANGED nonFeed

NextFeeds == HandlerRun \/ AppendRun \/ ReplaceRun

SpecFeeds == InitFeeds /\ [][NextFeeds]_vars

\* The state of the view apart from its props, its draft and the join dialog.
view == <<realtimeMessages, isLoading, isConnected, isSending, fetchPc, fetchData,
          sendPc, tempId, sentRow, serverRows, pushQueue, lastStatus, lastTempId,
          gapRows>>

\* The view of a signed-in user, or of none, on the conversation with another.
InitDrafts == \E userId \in {<<>>, <<"a">>} : InitView(userId, <<"b">>)

\* onChange of the input, enabled while connected and not sending.
TypeDraft ==
    /\ mounted
    /\ ~isLoading /\ InputEnabled
    /\ \E text \in Drafts \ {newMessage} : newMessage' = text
    /\ UNCHANGED <<view, lifecycle, sendCalls, dialog>>

\* sendMessage called with the draft as it stands: it returns at its guard or
\* goes on to the optimistic update and the insert request.
SubmitDraft ==
    /\ mounted
    /\ ~isLoading
    /\ sendCalls < MaxCalls
    /\ sendCalls' = sendCalls + 1
    /\ IF SendReturnsEarly(newMessage, currentUserId)
       THEN UNCHANGED <<view, lifecycle, newMessage, dialog>>
       ELSE /\ \E now \in Times : sendMessage(newMessage, now)
            /\ UNCHANGED lastTempId

NextDrafts ==
    \/ HistoryQuery
    \/ FetchComplete
    \/ StatusSubscribed
    \/ TypeDraft
    \/ SubmitDraft
    \/ InsertCommit
    \/ SendSuccess
    \/ SendFailure

SpecDrafts == InitDrafts /\ [][NextDrafts]_vars

\* The join dialogs of the users on one project.
InitJoin ==
    /\ InitChat(<<"a">>, <<"b">>)
    /\ \E members \in InitMembers : InitDialog(members)

chat == <<view, lifecycle, composer>>

\* handleJoinProject up to its first await, with the text typed in the code
\* field (upper-cased by onChange) and whether a user is signed in.
JoinSubmit ==
    \E u \in JoinUsers, typed \in Codes, signedIn \in BOOLEAN :
        LET accessCode == toUpperCase(typed) IN
        /\ joinPc[u] = "idle"
        /\ IF trim(accessCode) = <<>>
           THEN /\ joinError' = [joinError EXCEPT ![u] = "Please enter an access code"]
                /\ UNCHANGED <<joinPc, joinCode, joinSuccess>>
           ELSE IF ~signedIn
           THEN /\ joinError' =
                       [joinError EXCEPT ![u] = "You must be logged in to join a project"]
                /\ UNCHANGED <<joinPc, joinCode, joinSuccess>>
           ELSE /\ joinPc' = [joinPc EXCEPT ![u] = "finding"]
                /\ joinError' = [joinError EXCEPT ![u] = ""]
                /\ joinSuccess' = [joinSuccess EXCEPT ![u] = FALSE]
                /\ joinCode' = [joinCode EXCEPT ![u] = toUpperCase(trim(accessCode))]
        /\ UNCHANGED <<teamMembers, joinSeen, chat>>

\* The select by access code is answered: the handler refuses or goes on to
\* the update with the team_members it has read.
JoinFound ==
    \E u \in JoinUsers :
        /\ joinPc[u] = "finding"
        /\ IF joinCode[u] # ProjectCode
           THEN /\ joinError' = [joinError EXCEPT
                                    ![u] = "Invalid access code. Please check and try again."]
                /\ joinPc' = [joinPc EXCEPT ![u] = "idle"]
                /\ joinCode' = [joinCode EXCEPT ![u] = <<>>]
                /\ UNCHANGED joinSeen
           ELSE IF OwnerId = u
           THEN /\ joinError' = [joinError EXCEPT
                                    ![u] = "You are already the owner of this project"]
                /\ joinPc' = [joinPc EXCEPT ![u] = "idle"]
                /\ joinCode' = [joinCode EXCEPT ![u] = <<>>]
                /\ UNCHANGED joinSeen
           ELSE IF AlreadyMember(teamMembers, EmailOf(u), u)
           THEN /\ joinError' = [joinError EXCEPT
                                    ![u] = "You are already a member of this project"]
                /\ joinPc' = [joinPc EXCEPT ![u] = "idle"]
                /\ joinCode' = [joinCode EXCEPT ![u] = <<>>]
                /\ UNCHANGED joinSeen
           ELSE /\ joinSeen' = [joinSeen EXCEPT ![u] = teamMembers]
                /\ joinPc' = [joinPc EXCEPT ![u] = "updating"]
                /\ UNCHANGED <<joinError, joinCode>>
        /\ UNCHANGED <<teamMembers, joinSuccess, chat>>

\* The select is answered with an error.
JoinFindError ==
    \E u \in JoinUsers :
        /\ joinPc[u] = "finding"
        /\ joinError' = [joinError EXCEPT
                             ![u] = "Invalid access code. Please check and try again."]
        /\ joinPc' = [joinPc EXCEPT ![u] = "idle"]
        /\ joinCode' = [joinCode EXCEPT ![u] = <<>>]
        /\ joinSeen' = [joinSeen EXCEPT ![u] = <<>>]
        /\ UNCHANGED <<teamMembers, joinSuccess, chat>>

\* The update is applied: team_members becomes the list read plus the email.
JoinUpdated ==
    \E u \in JoinUsers :
        /\ joinPc[u] = "updating"
        /\ teamMembers' = Append(joinSeen[u], EmailOf(u))
        /\ joinSuccess' = [joinSuccess EXCEPT ![u] = TRUE]
        /\ joinPc' = [joinPc EXCEPT ![u] = "idle"]
        /\ joinCode' = [joinCode EXCEPT ![u] = <<>>]
        /\ joinSeen' = [joinSeen EXCEPT ![u] = <<>>]
        /\ UNCHANGED <<joinError, chat>>

\* The update is answered with an error.
JoinUpdateError ==
    \E u \in JoinUsers :
        /\ joinPc[u] = "updating"
        /\ joinError' = [joinError EXCEPT ![u] = "Failed to join project. Please try again."]
        /\ joinPc' = [joinPc EXCEPT ![u] = "idle"]
        /\ joinCode' = [joinCode EXCEPT ![u] = <<>>]
        /\ joinSeen' = [joinSeen EXCEPT ![u] = <<>>]
        /\ UNCHANGED <<teamMembers, joinSuccess, chat>>

\* A request throws before it reaches the store.
JoinThrown ==
    \E u \in JoinUsers :
        /\ joinPc[u] # "idle"
        /\ joinError' = [joinError EXCEPT ![u] = "An unexpected error occurred"]
        /\ joinPc' = [joinPc EXCEPT ![u] = "idle"]
        /\ joinCode' = [joinCode EXCEPT ![u] = <<>>]
        /\ joinSeen' = [joinSeen EXCEPT ![u] = <<>>]
        /\ UNCHANGED <<teamMembers, joinSuccess, chat>>

\* The timer set on success closes the dialog and clears its success text.
SuccessTimeout ==
    \E u \in JoinUsers :
        /\ joinSuccess[u]
        /\ joinSuccess' = [joinSuccess EXCEPT ![u] = FALSE]
        /\ UNCHANGED <<teamMembers, joinPc, joinCode, joinSeen, joinError, chat>>

NextJoin ==
    \/ JoinSubmit
    \/ JoinFound
    \/ JoinFindError
    \/ JoinUpdated
    \/ JoinUpdateError
    \/ JoinThrown
    \/ SuccessTimeout

SpecJoin == InitJoin /\ [][NextJoin]_vars

\* The same view as Spec with a store whose insert may answer without a row.
NextAnswers == Next \/ SendNoRow

SpecAnswers == Init /\ [][NextAnswers]_vars

\* The set-up and the tear-down of the view on the rooms of any two
\* participants, with an empty messages table.
NextRooms ==
    \/ HistoryQuery
    \/ FetchComplete
    \/ FetchError
    \/ StatusSubscribed
    \/ StatusOther
    \/ RoomChange
    \/ Unmount

SpecRooms == InitRooms /\ [][NextRooms]_vars

\* The views the Chat page renders one after the other, each for a pair of
\* participants, with an empty messages table.
NextPairs ==
    \/ HistoryQuery
    \/ FetchComplete
    \/ FetchError
    \/ StatusSubscribed
    \/ StatusOther
    \/ Unmount
    \/ Remount

SpecPairs == InitRooms /\ [][NextPairs]_vars

(***************************************************************************)
(* Properties of the feed.                                                 *)
(***************************************************************************)

Ids(msgs) == {msgs[i].id : i \in 1 .. Len(msgs)}

MarkedCount(msgs) == Cardinality({i \in 1 .. Len(msgs) : IsOptimistic(msgs[i].id)})

\* The steps of the channel handler, of the send call and of its completions,
\* told by what they change.
PushStep ==
    /\ pushQueue # <<>> /\ pushQueue' = Tail(pushQueue)
    /\ isConnected' = isConnected
SendStep == sendPc = "idle" /\ sendPc' = "requested"
FailureStep == sendPc = "requested" /\ sendPc' = "idle"
SuccessStep ==
    /\ sendPc = "committed" /\ sendPc' = "idle"
    /\ realtimeMessages' = ReplaceOptimistic(realtimeMessages, tempId, sentRow)
LoadStep ==
    /\ fetchPc = "answered" /\ fetchPc' = "done"
    /\ realtimeMessages' = LoadHistory(realtimeMessages, fetchData)

\* C1: whatever the interleaving of history completions, live deliveries and
\* sends with their completions, no two entries of the displayed list have
\* the same id.
C1_NoDuplicateIds ==
    LET shown == allMessages IN
    \A i, j \in 1 .. Len(shown) : i # j => shown[i].id # shown[j].id

\* C1 witness: the feed itself holds one id twice (the row of a send arrived by
\* live delivery and again as the insert's result) and the display shows it once.
C1_Witness ==
    /\ \E i, j \in 1 .. Len(realtimeMessages) :
          i # j /\ realtimeMessages[i].id = realtimeMessages[j].id
    /\ Len(allMessages) < Len(realtimeMessages)

\* C2: in every reachable state the displayed list is in ascending order of
\* creation time: each entry's created_at is at most that of the next entry.
C2_SortedByTime ==
    LET shown == allMessages IN
    \A i \in 1 .. (Len(shown) - 1) : shown[i].created_at <= shown[i + 1].created_at

\* C2 witness: the feed is out of time order (history, then a live row, then a
\* placeholder of an earlier reading) and the display of three entries is not.
C2_Witness ==
    /\ fetchPc = "done"
    /\ Len(allMessages) >= 3
    /\ \E i \in 1 .. Len(realtimeMessages) : IsOptimistic(realtimeMessages[i].id)
    /\ \E i, j \in 1 .. Len(realtimeMessages) :
          i < j /\ realtimeMessages[i].created_at > realtimeMessages[j].created_at

\* The entries of a list that are stored rows (no marker on their id).
StoredRows(msgs) == {m \in Range(msgs) : ~IsOptimistic(m.id)}

\* C3: after any sequence of events the displayed list holds every message the
\* processed events delivered: a step never loses a stored row that was
\* displayed, a processed live delivery of a stored row is displayed, and so
\* are the rows of a processed history answer, in whatever order the history
\* completion and the live deliveries are processed.
C3_AllReceivedDisplayed ==
    [][LET before == allMessages
           after == allMessagesOf(realtimeMessages')
       IN  /\ StoredRows(before) \subseteq StoredRows(after)
           /\ (PushStep /\ ~IsOptimistic(Head(pushQueue).id))
                 => Head(pushQueue) \in Range(after)
           /\ LoadStep => Range(fetchData) \subseteq Range(after)]_vars

C5_SuccessReplaces ==
    [][SuccessStep =>
          LET before == allMessages
              after == allMessagesOf(realtimeMessages')
          IN  /\ MarkedCount(after) = MarkedCount(before) - 1
              /\ Len(after) = Len(before)]_vars

\* C6: the placeholder of a send and the stored row of the same send are never
\* displayed together, whichever of the live delivery and the insert's answer
\* is processed first.
C6_OneEntryPerSend ==
    sendPc = "committed" =>
        ~(tempId \in Ids(allMessages) /\ sentRow.id \in Ids(allMessages))

\* C7: when a send's insert fails, the placeholder shown since the send call
\* leaves the displayed list: the count drops by exactly one, every other
\* entry stays where it was, and the feed holds no stored row of that send
\* (none was stored).
C7_FailureRemovesPlaceholder ==
    [][FailureStep =>
          LET before == allMessages
              after == allMessagesOf(realtimeMessages')
          IN  /\ tempId \in Ids(before)
              /\ Len(after) = Len(before) - 1
              /\ after = SelectSeq(before, LAMBDA m : m.id # tempId)
              /\ sentRow = NoRow
              /\ StoredRows(after) \subseteq serverRows
              /\ serverRows' = serverRows]_vars

\* C7 witness: a send whose insert has stored nothing is in flight, its
\* placeholder displayed between other entries, so that its failure has
\* entries to keep.
C7_Witness ==
    /\ sendPc = "requested"
    /\ sentRow = NoRow
    /\ Len(allMessages) >= 3
    /\ allMessages[2].id = tempId

\* C8: a live delivery whose id is already in the feed is dropped: the feed
\* and the displayed list are what they were.
C8_KnownIdDropped ==
    [][(PushStep /\ Head(pushQueue).id \in Ids(realtimeMessages)) =>
          /\ realtimeMessages' = realtimeMessages
          /\ allMessagesOf(realtimeMessages') = allMessages]_vars

\* C8 witness: the row next to be delivered is already in the feed: the
\* history answered it (inserted after the subscription, before the history
\* query) or it came back as the result of a finished send.
C8_Witness ==
    /\ pushQueue # <<>>
    /\ fetchPc = "done"
    /\ sendPc = "idle"
    /\ Head(pushQueue) \in Range(realtimeMessages)

PlacedByTime(before, m, after) ==
    /\ Len(after) = Len(before) + 1
    /\ \E k \in 1 .. Len(after) :
          /\ after[k] = m
          /\ \A i \in 1 .. (k - 1) :
                after[i] = before[i] /\ after[i].created_at <= m.created_at
          /\ \A i \in (k + 1) .. Len(after) :
                after[i] = before[i - 1] /\ m.created_at <= after[i].created_at

\* C10: once the history has loaded, a live delivery of a row with a new id
\* and no marker is displayed at its position in time order, not at the end:
\* the displayed list is the one before with the row placed by creation time.
C10_PushPlacedByTime ==
    [][(/\ PushStep
        /\ fetchPc = "done"
        /\ ~IsOptimistic(Head(pushQueue).id)
        /\ Head(pushQueue).id \notin Ids(realtimeMessages)) =>
          PlacedByTime(allMessages, Head(pushQueue),
                       allMessagesOf(realtimeMessages'))]_vars

\* C10 witness: the history answered rows 1 and 2 of times 1 and 3, a live
\* delivery then brought row 3 of time 2, and the display is 1, 3, 2.
C10_Witness ==
    /\ fetchPc = "done"
    /\ realtimeMessages = <<[id |-> [opt |-> FALSE, n |-> 1], created_at |-> 1],
                            [id |-> [opt |-> FALSE, n |-> 2], created_at |-> 3],
                            [id |-> [opt |-> FALSE, n |-> 3], created_at |-> 2]>>
    /\ allMessages = <<[id |-> [opt |-> FALSE, n |-> 1], created_at |-> 1],
                       [id |-> [opt |-> FALSE, n |-> 3], created_at |-> 2],
                       [id |-> [opt |-> FALSE, n |-> 2], created_at |-> 3]>>

\* The index of the entry with the id in a list that holds it once.
PositionOf(msgs, id) == CHOOSE i \in 1 .. Len(msgs) : msgs[i].id = id

FetchFailStep == fetchPc = "pending" /\ fetchPc' = "done"

\* C16: when the history fetch fails, the feed is left as it was (an empty
\* feed stays empty, no row is added), the loading state ends, and no step
\* issues a history fetch again.
C16_FetchFailureLeavesFeed ==
    [][/\ FetchFailStep =>
             /\ realtimeMessages' = realtimeMessages
             /\ ~isLoading'
       /\ fetchPc' = "pending" => fetchPc = "pending"]_vars

\* C16 witness: the fetch has ended with loading over while a stored row is
\* not in the feed, which holds a row delivered live.
C16_Witness ==
    /\ fetchPc = "done"
    /\ ~isLoading
    /\ Len(realtimeMessages) = 1
    /\ Cardinality(serverRows) = 2
    /\ \E r \in serverRows : r.id \notin Ids(realtimeMessages)

\* What the component renders from: the displayed list and the three flags.
View(msgs, loading, connected, sending) ==
    <<allMessagesOf(msgs), loading, connected, sending>>

\* C17: a failure of the history fetch or of a send is surfaced: after the
\* failure is processed, what the component renders from differs from what it
\* is after a successful fetch of an empty history, and from what it is with
\* the message never sent.
C17_FailureSurfaced ==
    [][/\ FetchFailStep =>
             View(realtimeMessages', isLoading', isConnected', isSending')
                 # View(LoadHistory(realtimeMessages, <<>>), FALSE, isConnected,
                        isSending)
       /\ FailureStep =>
             View(realtimeMessages', isLoading', isConnected', isSending')
                 # View(RemoveOptimistic(realtimeMessages, tempId), isLoading,
                        isConnected, FALSE)]_vars

\* C20: each send call issues one insert request: an insert request comes into
\* being only with a send call and its new placeholder, the processing of a
\* failure leaves no request behind, a request stores at most one row, and
\* as long as the request has not been answered to the component its
\* placeholder stays in the displayed list (it is there after the send call
\* and after every step that changes the feed).
C20_OneRequestNoTimeout ==
    [][/\ (sendPc' = "requested" /\ sendPc # "requested") =>
             /\ sendPc = "idle"
             /\ MarkedCount(realtimeMessages') = MarkedCount(realtimeMessages) + 1
       /\ FailureStep => (~isSending' /\ tempId' = NoId /\ serverRows' = serverRows)
       /\ (sendPc = "committed" /\ sendPc' # "idle") =>
             (sendPc' = "committed" /\ sentRow' = sentRow)
       /\ (sendPc # "idle" /\ sendPc' # "idle") => tempId' = tempId
       /\ (sendPc' # "idle" /\ (sendPc = "idle" \/ realtimeMessages' # realtimeMessages))
             => tempId' \in Ids(allMessagesOf(realtimeMessages'))]_vars

\* C20 witness: the insert request of a send is still unanswered after a row
\* stored later by a peer was delivered live and put on display next to the
\* placeholder.
C20_Witness ==
    /\ sendPc = "requested"
    /\ tempId \in Ids(allMessages)
    /\ pushQueue = <<>>
    /\ \E r \in serverRows : r.id \in Ids(allMessages)

\* C12: every send call creates a placeholder whose id is unique per call:
\* whatever clock reading a send call observes, its tempId differs from the
\* tempId of the send call before it.
C12_TempIdsDiffer ==
    [][SendStep => tempId' # lastTempId]_vars

\* C13: at most one channel is subscribed, it is the channel of the room of
\* the view as long as the view is rendered, and none is left once the view
\* is torn down.
C13_OneSubscriptionForRoom ==
    /\ Cardinality(channels) <= 1
    /\ mounted => channels = {roomName}
    /\ ~mounted => channels = {}

\* C13 witness: the view was torn down after its channel had been subscribed.
C13_Witness == ~mounted /\ lastStatus = "SUBSCRIBED" /\ channels = {}

\* C14: the view starts not connected, and at every moment isConnected tells
\* whether the last status the subscribe callback received was SUBSCRIBED.
C14_ConnectedIffSubscribed ==
    /\ lastStatus = "none" => ~isConnected
    /\ isConnected = (lastStatus = "SUBSCRIBED")

\* C14 witness: the channel reported a status other than SUBSCRIBED last and
\* the view shows not connected.
C14_Witness == lastStatus = "CLOSED" /\ ~isConnected /\ mounted /\ fetchPc = "done"

\* C18: the room name is symmetric in the two participants: for the
\* identifiers of any user and any receiver, the room the receiver's view
\* computes (the two identifiers swapped) is the room of this view and of
\* the channel it is subscribed to.
C18_RoomNameSymmetric ==
    /\ generateRoomName(receiverId, currentUserId)
           = generateRoomName(currentUserId, receiverId)
    /\ RoomNameOf(receiverId, currentUserId) = roomName
    /\ mounted => channels = {RoomNameOf(receiverId, currentUserId)}

\* C18 witness: the user's identifier sorts after the receiver's, one being a
\* prefix of the other, and the channel of their room is subscribed.
C18_Witness ==
    /\ Before(receiverId, currentUserId)
    /\ Len(receiverId) < Len(currentUserId)
    /\ isConnected
    /\ roomName \in channels

\* C15: no send is initiated while the view is not connected: a step that
\* calls sendMessage, adds a placeholder or issues an insert request starts
\* from a connected state.
C15_NoSendUnlessConnected ==
    [][(\/ SendStep
        \/ MarkedCount(realtimeMessages') > MarkedCount(realtimeMessages)
        \/ (sendPc' = "requested" /\ sendPc # "requested"))
          => isConnected]_vars

\* C15 witness: the channel has dropped while the form is rendered and no
\* send is in flight, so that only the connection keeps the input disabled.
C15_Witness ==
    /\ ~isConnected
    /\ lastStatus \in OtherStatuses
    /\ mounted /\ ~isLoading /\ ~isSending
    /\ sendPc = "idle"
    /\ Cardinality(serverRows) < MaxGapRows

\* A step in which the dropped channel is subscribed again.
ReconnectStep == lastStatus \in OtherStatuses /\ ~isConnected /\ isConnected'

\* A stored row the view has not got and is not going to get from an answer
\* on its way: it is not in the feed, it is not the row of the send in
\* flight, and the history query did not select it.
Missed(r, msgs, row, pc, data) ==
    /\ r.id \notin Ids(msgs)
    /\ r # row
    /\ \/ pc = "done"
       \/ pc = "answered" /\ r \notin Range(data)

\* C19 (as claimed): a message inserted during the gap is never in the feed.
C19_GapRowsNeverInFeed ==
    \A r \in gapRows : r.id \notin Ids(realtimeMessages)

\* C19 (amended): the reconnection requests no history and leaves the feed as
\* it is; a row stored while the channel is up is put on its way to the
\* handler, and a payload the handler has run for is in the feed; a row
\* stored during the gap that is neither the row of the view's own send in
\* flight nor selected by the history query stays out of the feed for good.
C19_NoBackfill ==
    [][/\ ReconnectStep =>
             /\ fetchPc' = fetchPc
             /\ realtimeMessages' = realtimeMessages
       /\ (isConnected /\ serverRows' # serverRows) =>
             /\ pushQueue' # <<>>
             /\ serverRows' = serverRows \cup {pushQueue'[Len(pushQueue')]}
       /\ PushStep => Head(pushQueue).id \in Ids(realtimeMessages')
       /\ \A r \in gapRows :
             Missed(r, realtimeMessages, sentRow, fetchPc, fetchData) =>
                 Missed(r, realtimeMessages', sentRow', fetchPc', fetchData')]_vars

\* C19 witness: the channel is subscribed again, a row stored during the gap
\* is missed, and a row stored after it is in the feed.
C19_Witness ==
    /\ lastStatus = "SUBSCRIBED"
    /\ \E g \in gapRows :
        /\ Missed(g, realtimeMessages, sentRow, fetchPc, fetchData)
        /\ \E r \in serverRows \ gapRows :
            r.id.n > g.id.n /\ r.id \in Ids(realtimeMessages)

\* The number of entries of a list with the id.
Count(msgs, id) == Cardinality({i \in 1 .. Len(msgs) : msgs[i].id = id})

\* C23: a row that reaches the view twice, among the history rows and as a
\* live payload, is in the feed and in the displayed list exactly once after
\* the second of the two is processed, whichever it is: the history
\* completion after the payload, or the payload after the history completion.
C23_TwiceDeliveredShownOnce ==
    [][/\ LoadStep =>
             \A r \in Range(fetchData) :
                 r.id \in Ids(realtimeMessages) =>
                     /\ Count(realtimeMessages', r.id) = 1
                     /\ Count(allMessagesOf(realtimeMessages'), r.id) = 1
       /\ (PushStep /\ Head(pushQueue).id \in Ids(realtimeMessages)) =>
             /\ Count(realtimeMessages', Head(pushQueue).id) = 1
             /\ Count(allMessagesOf(realtimeMessages'), Head(pushQueue).id) = 1]_vars

\* C23 witness: the live payload of a row was processed first and the history
\* answer that holds the same row is about to be processed.
C23_Witness ==
    /\ fetchPc = "answered"
    /\ \E r \in Range(fetchData) : r.id \in Ids(realtimeMessages)

SendFailStep == sendPc # "idle" /\ sendPc' = "idle" /\ ~SuccessStep

\* A step in which the subscribed channel drops.
DropStep == isConnected /\ ~isConnected'

C25_PlaceholderGoneOnCompletion ==
    [][(sendPc # "idle" /\ sendPc' = "idle")
          => tempId \notin Ids(realtimeMessages')]_vars

\* C30: room names separate conversations: a view rendered for a pair of
\* participants other than the pair of the view before it (as unordered
\* pairs) has another room name, so it subscribes to and fetches another
\* room.
C30_RoomNamesSeparate ==
    [][(~mounted /\ mounted'
        /\ {currentUserId', receiverId'} # {currentUserId, receiverId})
          => RoomNameOf(currentUserId', receiverId')
                 # RoomNameOf(currentUserId, receiverId)]_vars

\* C21: every message of the displayed list belongs to the current room of
\* the view, also after the room has changed: the messages of the feed are
\* rows and placeholders of the room whose rows the table holds.
C21_DisplayedOfCurrentRoom ==
    allMessages # <<>> => roomName = StoreRoom

\* The entry of a list that holds the id and has no entry with it before.
FirstEntry(msgs, id) ==
    msgs[CHOOSE i \in 1 .. Len(msgs) :
            msgs[i].id = id /\ \A j \in 1 .. (i - 1) : msgs[j].id # id]

\* The entry displayed for an id of the feed.
Shown(msgs, id) ==
    LET shown == allMessagesOf(msgs) IN shown[PositionOf(shown, id)]

\* C22: de-duplication keeps the first-seen entry: the displayed list shows,
\* for every id of the feed, the entry that stands first with that id in the
\* feed, and a step that adds an entry to the feed, with a new id or not,
\* changes the entry shown for no id that was in the feed.
C22_FirstSeenKept ==
    [][/\ \A id \in Ids(realtimeMessages) :
             Shown(realtimeMessages, id) = FirstEntry(realtimeMessages, id)
       /\ \A id \in Ids(realtimeMessages') :
             Shown(realtimeMessages', id) = FirstEntry(realtimeMessages', id)
       /\ Len(realtimeMessages') = Len(realtimeMessages) + 1 =>
             \A id \in Ids(realtimeMessages) :
                 Shown(realtimeMessages', id) = Shown(realtimeMessages, id)]_vars

\* C22 witness: the feed holds two entries with the same id and different
\* timestamps, the one with the later timestamp first.
C22_Witness ==
    \E i, j \in 1 .. Len(realtimeMessages) :
        /\ i < j
        /\ realtimeMessages[i].id = realtimeMessages[j].id
        /\ realtimeMessages[i].created_at > realtimeMessages[j].created_at
        /\ Len(realtimeMessages) = MaxFeedLen

\* A text that is empty or holds blanks only.
Blank(text) == \A i \in 1 .. Len(text) : text[i] = " "

\* C27: a send call with an empty or whitespace-only draft, or with no current
\* user id, is a no-op: the feed, the draft and the sending flag are unchanged
\* and no insert request is issued.
C27_BlankSendNoOp ==
    [][(sendCalls' # sendCalls /\ (Blank(newMessage) \/ currentUserId = <<>>)) =>
           UNCHANGED <<realtimeMessages, newMessage, isSending, sendPc, serverRows>>]_vars

\* C27 witness: sendMessage has been called on a connected view whose draft
\* holds blanks only, and nothing was sent.
C27_Witness ==
    /\ sendCalls > 0
    /\ newMessage # <<>> /\ Blank(newMessage)
    /\ isConnected /\ currentUserId # <<>>
    /\ realtimeMessages = <<>> /\ serverRows = {} /\ sendPc = "idle"

\* C28: joining by access code keeps the memberships of concurrent joiners:
\* every user whose dialog shows that the join succeeded is in team_members.
C28_ConcurrentJoinersKept ==
    \A u \in JoinUsers : joinSuccess[u] => EmailOf(u) \in Range(teamMembers)

\* How many entries of a list of members equal the given one.
Occurrences(members, x) == Cardinality({i \in 1 .. Len(members) : members[i] = x})

\* C29: a join updates team_members only when the code matches the project and
\* the user is neither its owner nor in the team_members read, by email or by
\* id, and then appends the user's email; a join that ends without an update
\* reports an error; and no user's email is in team_members more than once.
C29_JoinGuarded ==
    [][/\ teamMembers' # teamMembers =>
             \E u \in JoinUsers :
                 /\ joinPc[u] = "updating" /\ joinPc'[u] = "idle"
                 /\ joinCode[u] = ProjectCode
                 /\ u # OwnerId
                 /\ EmailOf(u) \notin Range(joinSeen[u])
                 /\ u \notin Range(joinSeen[u])
                 /\ teamMembers' = joinSeen[u] \o <<EmailOf(u)>>
       /\ \A u \in JoinUsers :
             (joinPc[u] # "idle" /\ joinPc'[u] = "idle" /\ teamMembers' = teamMembers) =>
                 joinError'[u] # ""
       /\ \A u \in JoinUsers :
             (joinPc[u] = "idle" /\ joinPc'[u] = "idle" /\ joinError'[u] # joinError[u]) =>
                 (joinError'[u] # "" /\ teamMembers' = teamMembers)
       /\ \A u \in JoinUsers : Occurrences(teamMembers', EmailOf(u)) <= 1]_vars

\* C29 witness: a user who has joined tries again and is refused as a member.
C29_Witness ==
    /\ teamMembers = <<EmailOf("u1")>>
    /\ joinError["u1"] = "You are already a member of this project"

====
